---- MODULE Spec2Model ----
(***************************************************************************)
(* The LangGraph workflow of main.py: five nodes (generator,               *)
(* self_improvement, verifier, human_review, corrector) over one shared    *)
(* GraphState dictionary, two routing functions, and the stream loop of    *)
(* __main__ that drives them.                                              *)
(*                                                                         *)
(* Texts the routing looks into (verdicts, raw verifier answers, console   *)
(* input) are sequences of one-character strings, so that str.lower(),     *)
(* str.strip() and the `in` substring test are computed as Python computes *)
(* them.  Texts the program only carries around (proofs, exception         *)
(* messages, findings) are sequences of opaque pieces.                     *)
(***************************************************************************)
EXTENDS Integers, Sequences, FiniteSets, TLC

VARIABLES state, pc, trace, final_state, decision

vars == <<state, pc, trace, final_state, decision>>

(***************************************************************************)
(* Bounds of the model.                                                    *)
(***************************************************************************)
\* distinct proofs the oracle can return
NumProofs == 2
\* distinct exception messages an oracle call can raise with
NumErrMsgs == 1
\* longest findings list of a BugReport
MaxFindings == 1
\* console lines typed at the reviewer prompt before one is accepted
MaxInputs == 2
\* longest findings list of a BugReport handed to the verifier on its own
MaxReportFindings == 2

(***************************************************************************)
(* Program constants.                                                      *)
(***************************************************************************)
\* `state.get("iterations", 0) >= 3`
MaxIterations == 3
\* app.stream(initial_state, {"recursion_limit": 10})
RecursionLimit == 10

(***************************************************************************)
(* Python strings.                                                         *)
(***************************************************************************)
UpperAlpha == <<"A","B","C","D","E","F","G","H","I","J","K","L","M",
                "N","O","P","Q","R","S","T","U","V","W","X","Y","Z">>

LowerAlpha == <<"a","b","c","d","e","f","g","h","i","j","k","l","m",
                "n","o","p","q","r","s","t","u","v","w","x","y","z">>

Whitespace == {" ", "\n", "\t"}

LowerChar(c) ==
    IF \E i \in 1..Len(UpperAlpha) : UpperAlpha[i] = c
    THEN LowerAlpha[CHOOSE i \in 1..Len(UpperAlpha) : UpperAlpha[i] = c]
    ELSE c

\* str.lower()
Lower(s) == [i \in 1..Len(s) |-> LowerChar(s[i])]

\* `sub in s`
Contains(sub, s) ==
    \E i \in 0..(Len(s) - Len(sub)) : SubSeq(s, i + 1, i + Len(sub)) = sub

\* str.strip()
Strip(s) ==
    IF \A i \in 1..Len(s) : s[i] \in Whitespace
    THEN <<>>
    ELSE LET first == CHOOSE i \in 1..Len(s) :
                          /\ s[i] \notin Whitespace
                          /\ \A j \in 1..(i - 1) : s[j] \in Whitespace
             last  == CHOOSE i \in 1..Len(s) :
                          /\ s[i] \notin Whitespace
                          /\ \A j \in (i + 1)..Len(s) : s[j] \in Whitespace
         IN SubSeq(s, first, last)

sp == <<" ">>
w_the == <<"t","h","e">>
W_The == <<"T","h","e">>
w_solution == <<"s","o","l","u","t","i","o","n">>
w_proof == <<"p","r","o","o","f">>
w_is == <<"i","s">>
w_correct == <<"c","o","r","r","e","c","t">>
w_incorrect == <<"i","n">> \o w_correct
w_error == <<"e","r","r","o","r">>
W_Error == <<"E","r","r","o","r">>
W_Critical == <<"C","r","i","t","i","c","a","l">>
w_contains == <<"c","o","n","t","a","i","n","s">>
w_has == <<"h","a","s">>
w_one == <<"o","n","e">>
w_but == <<"b","u","t">>
w_a == <<"a">>
w_may == <<"m","a","y">>
w_contain == <<"c","o","n","t","a","i","n">>
w_issues == <<"i","s","s","u","e","s">>
w_manual == <<"m","a","n","u","a","l">>
w_review == <<"r","e","v","i","e","w">>
w_recommended == <<"r","e","c","o","m","m","e","n","d","e","d">>

\* "the solution is correct", the phrase of lines 410 and 592
s_the_solution_is_correct ==
    w_the \o sp \o w_solution \o sp \o w_is \o sp \o w_correct

\* "solution is correct", the phrase of line 593
s_solution_is_correct == w_solution \o sp \o w_is \o sp \o w_correct

\* "The solution is correct."
V_Correct ==
    W_The \o sp \o w_solution \o sp \o w_is \o sp \o w_correct \o <<".">>

\* "The solution contains a Critical Error"
V_CriticalError ==
    W_The \o sp \o w_solution \o sp \o w_contains \o sp \o w_a \o sp
          \o W_Critical \o sp \o W_Error

\* "The solution is incorrect."
V_Incorrect ==
    W_The \o sp \o w_solution \o sp \o w_is \o sp \o w_incorrect \o <<".">>

\* "The solution is correct but has one error."
V_CorrectButError ==
    W_The \o sp \o w_solution \o sp \o w_is \o sp \o w_correct \o sp \o w_but
          \o sp \o w_has \o sp \o w_one \o sp \o w_error \o <<".">>

\* "The proof is correct."
V_ProofCorrect == W_The \o sp \o w_proof \o sp \o w_is \o sp \o w_correct \o <<".">>

\* "The proof is correct but has one error."
V_ProofCorrectButError ==
    W_The \o sp \o w_proof \o sp \o w_is \o sp \o w_correct \o sp \o w_but
          \o sp \o w_has \o sp \o w_one \o sp \o w_error \o <<".">>

\* "The solution may contain issues - manual review recommended."
V_MayContainIssues ==
    W_The \o sp \o w_solution \o sp \o w_may \o sp \o w_contain \o sp
          \o w_issues \o sp \o <<"-">> \o sp \o w_manual \o sp \o w_review
          \o sp \o w_recommended \o <<".">>

\* " THE SOLUTION IS CORRECT \n"
V_ShoutedCorrect ==
    sp \o <<"T","H","E">> \o sp \o <<"S","O","L","U","T","I","O","N">> \o sp
       \o <<"I","S">> \o sp \o <<"C","O","R","R","E","C","T">> \o sp \o <<"\n">>


(***************************************************************************)
(* The values the collaborators can hand to the program.                   *)
(***************************************************************************)
\* verdict sentences every routing input is drawn from
Verdicts ==
    { V_Correct, V_CriticalError, V_Incorrect, V_CorrectButError,
      V_ProofCorrect, V_ProofCorrectButError, V_MayContainIssues,
      V_ShoutedCorrect, <<>> }

\* final_verdict values the oracle returns during a run
OracleVerdicts ==
    { V_Correct, V_CriticalError, V_Incorrect, V_CorrectButError,
      V_ProofCorrect }

\* raw texts of the unstructured verifier call
RawTexts == { V_ShoutedCorrect, V_CriticalError }

\* SolutionGeneration objects (lines 63-75)
SolutionResponses ==
    { [summary |-> [verdict |-> "complete", method_sketch |-> "sketch"],
       detailed_solution |-> [proof |-> <<"proof", i>>]] : i \in 1..NumProofs }

\* exceptions an oracle call raises; str(e) is the value itself
Exceptions == { <<"exception", i>> : i \in 1..NumErrMsgs }

\* findings lists of a BugReport (line 80)
FindingsLists ==
    { [i \in 1..n |-> <<"finding", i>>] : n \in 0..MaxFindings }

\* BugReport objects (lines 77-80); a record without findings has findings None
BugReports ==
    { [final_verdict |-> v] : v \in OracleVerdicts }
        \cup { [final_verdict |-> v, findings |-> f] :
                   v \in OracleVerdicts, f \in FindingsLists }

\* outcome of a structured oracle call: a value or an exception
Returned(values) == { [ok |-> TRUE, value |-> x] : x \in values }

Raised == { [ok |-> FALSE, exc |-> e] : e \in Exceptions }

\* lines typed at the reviewer prompt
ConsoleLines == { <<"y">>, <<"Y">>, <<"n">>, <<"y","e","s">> }

ConsoleInputs == UNION { [1..n -> ConsoleLines] : n \in 1..MaxInputs }

\* lines typed at the problem prompt
UserProblems == { <<>>, <<" ">>, <<" ","P","1","\n">> }

default_problem == <<"L","e","t"," ","S">>

(***************************************************************************)
(* GraphState: a dictionary holding only the keys written so far.          *)
(***************************************************************************)
EmptyDict == [k \in {} |-> <<>>]

Has(st, k) == k \in DOMAIN st

\* dict.get(k, default)
Get(st, k, default) == IF k \in DOMAIN st THEN st[k] ELSE default

\* an update that replaces the state instead of being merged into it
Merge_replaces(st, delta) == delta

\* the merge of a node's update into the state
Merge(st, delta) == delta @@ st

\* truth value of state.get("error")
HasError(st) == Has(st, "error") /\ st["error"] # <<>>

\* the f-string of lines 197, 285 and 535
FormatSolution(response) ==
    << "## Summary\n\n**Verdict:** ", response.summary.verdict,
       "\n\n**Method Sketch:**\n", response.summary.method_sketch,
       "\n\n## Detailed Solution\n\n", response.detailed_solution.proof >>

\* a join that walks the findings from the last to the first
RECURSIVE JoinFindings_reversed(_)
JoinFindings_reversed(findings) ==
    IF Len(findings) = 0 THEN <<>>
    ELSE IF Len(findings) = 1 THEN <<"- ", findings[1]>>
    ELSE <<"- ", findings[Len(findings)], "\n">>
             \o JoinFindings_reversed(SubSeq(findings, 1, Len(findings) - 1))

\* "\n".join(f"- {finding}" for finding in findings)
RECURSIVE JoinFindings(_)
JoinFindings(findings) ==
    IF Len(findings) = 0 THEN <<>>
    ELSE IF Len(findings) = 1 THEN <<"- ", findings[1]>>
    ELSE <<"- ", findings[1], "\n">> \o JoinFindings(Tail(findings))

NoIssuesFound == <<"No issues found.">>

HumanRejected == <<"Human reviewer rejected the bug report.">>


(***************************************************************************)
(* The nodes.  Each operator is the update a node returns, given the state *)
(* it reads and what its collaborator answers.                             *)
(***************************************************************************)
generator_node(st, call) ==
    IF call.ok
    THEN [solution |-> FormatSolution(call.value)]
    ELSE [error |-> <<"Failed to generate a solution: ", call.exc>>]

\* a self_improvement that reports its oracle failure the way the generator does
self_improvement_node_fatal(st, call) ==
    IF Has(st, "solution") /\ call.ok
    THEN [solution |-> FormatSolution(call.value)]
    ELSE [error |-> <<"Failed to improve the solution: ", "exception">>]

\* state["solution"] is read inside the try: a missing key is caught as well
self_improvement_node(st, call) ==
    IF Has(st, "solution") /\ call.ok
    THEN [solution |-> FormatSolution(call.value)]
    ELSE EmptyDict

\* the try of lines 381-393 ends without an exception
StructuredSucceeds(st, call) == Has(st, "solution") /\ call.ok

\* the fallback of lines 399-404 is outside any try: its exception, or the
\* KeyError of state["solution"], leaves the node
verifier_raises(st, call, raw) ==
    /\ ~StructuredSucceeds(st, call)
    /\ (~Has(st, "solution") \/ ~raw.ok)

\* the one finding of line 414, a piece shaped like the oracle's findings
FallbackFinding ==
    <<"Verification completed with regular output - see detailed response above", 0>>

\* findings and final_verdict as lines 392-393 and 410-415 set them
verifier_findings(st, call, raw) ==
    IF StructuredSucceeds(st, call)
    THEN Get(call.value, "findings", <<>>)
    ELSE IF Contains(s_the_solution_is_correct, Lower(raw.value))
         THEN <<>>
         ELSE <<FallbackFinding>>

\* a fallback that looks for the phrase without lower-casing the raw text
verifier_final_verdict_case_sensitive(st, call, raw) ==
    IF StructuredSucceeds(st, call)
    THEN call.value.final_verdict
    ELSE IF Contains(s_the_solution_is_correct, raw.value)
         THEN V_Correct
         ELSE V_MayContainIssues

verifier_final_verdict(st, call, raw) ==
    IF StructuredSucceeds(st, call)
    THEN call.value.final_verdict
    ELSE IF Contains(s_the_solution_is_correct, Lower(raw.value))
         THEN V_Correct
         ELSE V_MayContainIssues

\* a verifier that returns the iteration count it read
verifier_node_keeps_count(st, call, raw) ==
    LET findings == verifier_findings(st, call, raw)
        final_verdict == verifier_final_verdict(st, call, raw)
    IN [verification_summary |-> final_verdict,
        bug_report |-> IF findings = <<>> THEN NoIssuesFound
                       ELSE JoinFindings(findings),
        iterations |-> Get(st, "iterations", 0)]

\* a verifier that writes no bug_report when it has no findings
verifier_node_omits_report(st, call, raw) ==
    LET findings == verifier_findings(st, call, raw)
        final_verdict == verifier_final_verdict(st, call, raw)
    IN IF findings = <<>>
       THEN [verification_summary |-> final_verdict,
             iterations |-> Get(st, "iterations", 0) + 1]
       ELSE [verification_summary |-> final_verdict,
             bug_report |-> JoinFindings(findings),
             iterations |-> Get(st, "iterations", 0) + 1]

\* lines 420-443
verifier_node(st, call, raw) ==
    LET findings == verifier_findings(st, call, raw)
        final_verdict == verifier_final_verdict(st, call, raw)
    IN [verification_summary |-> final_verdict,
        bug_report |-> IF findings = <<>> THEN NoIssuesFound
                       ELSE JoinFindings(findings),
        iterations |-> Get(st, "iterations", 0) + 1]

\* a loop that takes the first line, with `else` for `elif user_input == 'n'`
AcceptedInput_first_line(inputs) == IF Len(inputs) = 0 THEN 0 ELSE 1

\* the first console line the loop of lines 482-491 accepts, 0 if none
AcceptedInput(inputs) ==
    LET valid == { i \in 1..Len(inputs) :
                       Lower(inputs[i]) = <<"y">> \/ Lower(inputs[i]) = <<"n">> }
    IN IF valid = {} THEN 0
       ELSE CHOOSE i \in valid : \A j \in valid : i <= j

\* a review that writes the reviewer's own finding over the report it approves
human_review_node_edits_report(st, user_input) ==
    IF Lower(user_input) = <<"y">>
    THEN [bug_report |-> <<"- ", <<"finding", 0>>>>]
    ELSE [error |-> HumanRejected]

human_review_node(st, user_input) ==
    IF Lower(user_input) = <<"y">>
    THEN EmptyDict
    ELSE [error |-> HumanRejected]

corrector_node(st, call) ==
    IF call.ok
    THEN [solution |-> FormatSolution(call.value)]
    ELSE [error |-> <<"Failed to correct the solution: ", call.exc>>]

(***************************************************************************)
(* The conditional edges.                                                  *)
(***************************************************************************)
\* lines 589-596; `and` binds tighter than `or`
is_correct(summary) ==
    \/ Contains(s_the_solution_is_correct, summary)
    \/ Contains(s_solution_is_correct, summary)
    \/ Strip(summary) = s_the_solution_is_correct \o <<".">>
    \/ /\ Contains(w_correct, summary)
       /\ ~Contains(w_incorrect, summary)
       /\ ~Contains(w_error, summary)

\* the limit test written with > for >=
iteration_limit_reached_strict(st) == Get(st, "iterations", 0) > MaxIterations

\* the limit test one iteration early
iteration_limit_reached_early(st) == Get(st, "iterations", 0) >= MaxIterations - 1

\* lines 602-605
iteration_limit_reached(st) == Get(st, "iterations", 0) >= MaxIterations

\* a routing that does not look at the error field
decide_after_verification_ignores_error(st) ==
    IF is_correct(Lower(Get(st, "verification_summary", <<>>))) THEN "END"
    ELSE IF iteration_limit_reached(st) THEN "END"
    ELSE "human_review"

\* a routing that ends the run when the state holds no solution
decide_after_verification_needs_solution(st) ==
    IF HasError(st) \/ ~Has(st, "solution") THEN "END"
    ELSE IF is_correct(Lower(Get(st, "verification_summary", <<>>))) THEN "END"
    ELSE IF iteration_limit_reached(st) THEN "END"
    ELSE "human_review"

decide_after_verification(st) ==
    IF HasError(st) THEN "END"
    ELSE IF is_correct(Lower(Get(st, "verification_summary", <<>>))) THEN "END"
    ELSE IF iteration_limit_reached(st) THEN "END"
    ELSE "human_review"

\* a human-review edge that ignores the error field
decide_after_human_review_ignores_error(st) == "corrector"

decide_after_human_review(st) ==
    IF HasError(st) THEN "END" ELSE "corrector"

\* a graph whose corrector loops back to self_improvement
NextNode_corrector_to_refine(node, st) ==
    CASE node = "generator" -> "self_improvement"
      [] node = "self_improvement" -> "verifier"
      [] node = "corrector" -> "self_improvement"
      [] node = "verifier" -> decide_after_verification(st)
      [] node = "human_review" -> decide_after_human_review(st)

\* the edges of lines 654-674
NextNode(node, st) ==
    CASE node = "generator" -> "self_improvement"
      [] node = "self_improvement" -> "verifier"
      [] node = "corrector" -> "verifier"
      [] node = "verifier" -> decide_after_verification(st)
      [] node = "human_review" -> decide_after_human_review(st)

Nodes == {"generator", "self_improvement", "verifier", "human_review", "corrector"}


(***************************************************************************)
(* The run: __main__ builds the initial state and streams the graph.       *)
(***************************************************************************)
\* lines 730-731
initial_state(user_problem) ==
    [problem_statement |->
        IF Strip(user_problem) # <<>> THEN Strip(user_problem)
        ELSE default_problem]

\* the stream has steps left under its recursion limit
CanStep == Len(trace) < RecursionLimit

\* one step of the stream loop (lines 735-741): the node's update is merged,
\* the update is what the loop keeps as final_state, the edge out of the
\* node is taken on the merged state
Advance(node, out, delta) ==
    /\ state' = Merge(state, delta)
    /\ final_state' = delta
    /\ trace' = Append(trace,
                       [node |-> node, out |-> out,
                        summary |-> Get(state', "verification_summary", <<>>)])
    /\ pc' = NextNode(node, state')
    /\ decision' = IF node \in {"verifier", "human_review"}
                   THEN NextNode(node, state') ELSE decision

\* the "Workflow Status" line of generate_final_report (line 714)
report_workflow_status(final) ==
    IF ~HasError(final) THEN "COMPLETED" ELSE "TERMINATED WITH ERROR"

\* the "Solution Accepted" line of generate_final_report (lines 701 and 715)
report_solution_accepted(final) ==
    LET verification_status == Get(final, "verification_summary", <<"N", "/", "A">>)
    IN /\ Contains(w_correct, Lower(verification_status))
       /\ ~Contains(w_incorrect, Lower(verification_status))

Init ==
    /\ state \in { initial_state(u) : u \in UserProblems }
    /\ pc = "generator"
    /\ trace = <<>>
    /\ final_state = EmptyDict
    /\ decision = "none"

Generator ==
    /\ pc = "generator"
    /\ CanStep
    /\ \E call \in Returned(SolutionResponses) \cup Raised :
           Advance("generator", IF call.ok THEN "ok" ELSE "failed",
                   generator_node(state, call))

SelfImprovement ==
    /\ pc = "self_improvement"
    /\ CanStep
    /\ \E call \in Returned(SolutionResponses) \cup Raised :
           Advance("self_improvement",
                   IF Has(state, "solution") /\ call.ok THEN "ok" ELSE "failed",
                   self_improvement_node(state, call))

Verifier ==
    /\ pc = "verifier"
    /\ CanStep
    /\ \E call \in Returned(BugReports) \cup Raised,
          raw \in Returned(RawTexts) \cup Raised :
           /\ ~verifier_raises(state, call, raw)
           /\ Advance("verifier",
                      IF StructuredSucceeds(state, call) THEN "structured"
                      ELSE "fallback",
                      verifier_node(state, call, raw))

HumanReview ==
    /\ pc = "human_review"
    /\ CanStep
    /\ \E inputs \in ConsoleInputs :
           /\ AcceptedInput(inputs) # 0
           /\ LET user_input == inputs[AcceptedInput(inputs)]
              IN Advance("human_review",
                         IF Lower(user_input) = <<"y">> THEN "approved"
                         ELSE "rejected",
                         human_review_node(state, user_input))

Corrector ==
    /\ pc = "corrector"
    /\ CanStep
    /\ \E call \in Returned(SolutionResponses) \cup Raised :
           Advance("corrector", IF call.ok THEN "ok" ELSE "failed",
                   corrector_node(state, call))

\* an exception leaves app.stream: the recursion limit of the stream, or the
\* verifier's unguarded fallback; nothing is merged and no report follows
StreamRaises ==
    /\ pc \in Nodes
    /\ IF ~CanStep
       THEN /\ pc' = "recursion_error"
            /\ trace' = trace
       ELSE /\ pc = "verifier"
            /\ \E call \in Returned(BugReports) \cup Raised,
                  raw \in Returned(RawTexts) \cup Raised :
                   verifier_raises(state, call, raw)
            /\ pc' = "raised"
            /\ trace' = Append(trace,
                               [node |-> "verifier", out |-> "raised",
                                summary |-> Get(state, "verification_summary", <<>>)])
    /\ UNCHANGED <<state, final_state, decision>>

Next ==
    \/ Generator
    \/ SelfImprovement
    \/ Verifier
    \/ HumanReview
    \/ Corrector
    \/ StreamRaises

Spec == Init /\ [][Next]_vars

(***************************************************************************)
(* The routing functions on their own: every state dictionary a caller can *)
(* hand them, and one application of each.                                 *)
(***************************************************************************)
RouterErrors ==
    { EmptyDict, [error |-> <<>>], [error |-> HumanRejected] }
        \cup { [error |-> <<"Failed to correct the solution: ", e>>] :
                   e \in Exceptions }

RouterSummaries ==
    { EmptyDict } \cup { [verification_summary |-> v] : v \in Verdicts }

RouterIterations ==
    { EmptyDict } \cup { [iterations |-> n] : n \in 0..(MaxIterations + 2) }

RouterSolutions ==
    { EmptyDict } \cup { [solution |-> FormatSolution(r)] : r \in SolutionResponses }

RouterProblems == { initial_state(u) : u \in UserProblems }

RouterBugReports ==
    { EmptyDict, [bug_report |-> NoIssuesFound] }
        \cup { [bug_report |-> JoinFindings(f)] : f \in FindingsLists \ {<<>>} }

RouterStates ==
    { Merge(Merge(Merge(Merge(Merge(p, e), v), n), a), b) :
          p \in RouterProblems, e \in RouterErrors, v \in RouterSummaries,
          n \in RouterIterations, a \in RouterSolutions, b \in RouterBugReports }

RouterInit ==
    /\ state \in RouterStates
    /\ pc = "router"
    /\ trace = <<>>
    /\ final_state = EmptyDict
    /\ decision = "none"

RouteAfterVerification ==
    /\ pc = "router"
    /\ decision' = decide_after_verification(state)
    /\ pc' = "routed_after_verification"
    /\ UNCHANGED <<state, trace, final_state>>

RouteAfterHumanReview ==
    /\ pc = "router"
    /\ decision' = decide_after_human_review(state)
    /\ pc' = "routed_after_human_review"
    /\ UNCHANGED <<state, trace, final_state>>

RouterNext == RouteAfterVerification \/ RouteAfterHumanReview

RouterSpec == RouterInit /\ [][RouterNext]_vars


(***************************************************************************)
(* The verifier on its own: every state dictionary it can be handed, every *)
(* answer of its two oracle calls, one execution, and the routing that     *)
(* follows it.  The trace entry keeps what the verifier read and what the  *)
(* oracle answered.                                                        *)
(***************************************************************************)
VerifierFindingsLists ==
    { [i \in 1..n |-> <<"finding", i>>] : n \in 0..MaxReportFindings }

VerifierBugReports ==
    { [final_verdict |-> v] : v \in Verdicts }
        \cup { [final_verdict |-> v, findings |-> f] :
                   v \in Verdicts, f \in VerifierFindingsLists }

VerifierRawTexts == Verdicts

\* the states a verifier starts from: first or later execution, with or
\* without a solution, with or without the error of a failed corrector
VerifierStates ==
    { Merge(Merge(Merge(Merge(p, a), n), b), e) :
          p \in RouterProblems,
          a \in RouterSolutions,
          n \in { EmptyDict } \cup { [iterations |-> k] : k \in 1..(MaxIterations - 1) },
          b \in { EmptyDict,
                  [verification_summary |-> V_CriticalError,
                   bug_report |-> JoinFindings(<< <<"finding", 1>> >>)] },
          e \in { EmptyDict }
                  \cup { [error |-> <<"Failed to correct the solution: ", x>>] :
                             x \in Exceptions } }

VerifierInit ==
    /\ state \in VerifierStates
    /\ pc = "verifier_call"
    /\ trace = <<>>
    /\ final_state = EmptyDict
    /\ decision = "none"

VerifierCall ==
    /\ pc = "verifier_call"
    /\ \E call \in Returned(VerifierBugReports) \cup Raised,
          raw \in Returned(VerifierRawTexts) \cup Raised :
           /\ ~verifier_raises(state, call, raw)
           /\ final_state' = verifier_node(state, call, raw)
           /\ state' = Merge(state, final_state')
           /\ trace' = << [node |-> "verifier",
                           out |-> IF StructuredSucceeds(state, call)
                                   THEN "structured" ELSE "fallback",
                           summary |-> state'["verification_summary"],
                           read |-> state, call |-> call, raw |-> raw] >>
           /\ decision' = decide_after_verification(state')
           /\ pc' = "verified"

VerifierCallRaises ==
    /\ pc = "verifier_call"
    /\ \E call \in Returned(VerifierBugReports) \cup Raised,
          raw \in Returned(VerifierRawTexts) \cup Raised :
           /\ verifier_raises(state, call, raw)
           /\ trace' = << [node |-> "verifier", out |-> "raised",
                           summary |-> Get(state, "verification_summary", <<>>),
                           read |-> state, call |-> call, raw |-> raw] >>
    /\ pc' = "raised"
    /\ UNCHANGED <<state, final_state, decision>>

VerifierNext == VerifierCall \/ VerifierCallRaises

VerifierSpec == VerifierInit /\ [][VerifierNext]_vars


(***************************************************************************)
(* Reading the run.                                                        *)
(***************************************************************************)
Terminated == pc \in {"END", "raised", "recursion_error"}

iterations == Get(state, "iterations", 0)

Last == trace[Len(trace)]

\* positions of the trace at which `node` executed
Executions(node) == { i \in 1..Len(trace) : trace[i].node = node }

\* Verify executions that returned an update
CompletedVerifies ==
    { i \in Executions("verifier") : trace[i].out # "raised" }

\* a node whose collaborator reported a failure
FailedAt(i) == trace[i].out \in {"failed", "rejected"}

\* the verdict a Verify execution returned is one the routing rejects
RejectedAt(i) == ~is_correct(Lower(trace[i].summary))

\* every failure cause Generate or Correct can write
OracleFailureCauses ==
    { generator_node(state, call)["error"] : call \in Raised }
        \cup { corrector_node(state, call)["error"] : call \in Raised }

(***************************************************************************)
(* C1.  Once the error field is set, no node executes afterwards, the      *)
(* iteration count keeps its value and error keeps its value.              *)
(* The code takes the unconditional edges generator -> self_improvement    *)
(* and corrector -> verifier with error set.                               *)
(***************************************************************************)
C1_NothingAfterFailure ==
    [][HasError(state) =>
          /\ trace' = trace
          /\ Get(state', "iterations", 0) = Get(state, "iterations", 0)
          /\ HasError(state') /\ state'["error"] = state["error"]]_vars

(***************************************************************************)
(* C2.  When the generator's oracle call fails, the run is terminated      *)
(* right after the generator with error set, and neither self_improvement  *)
(* nor verifier executes.                                                  *)
(***************************************************************************)
C2_GenerateFailureTerminates ==
    (Len(trace) >= 1 /\ trace[1].node = "generator" /\ trace[1].out = "failed")
        => /\ pc = "END"
           /\ HasError(state)
           /\ Executions("self_improvement") = {}
           /\ Executions("verifier") = {}

(***************************************************************************)
(* C3.  No oracle failure leaves a node as an exception: a verifier that   *)
(* holds a solution never raises, whatever its two oracle calls do.        *)
(***************************************************************************)
C3_NoUncaughtOracleFailure ==
    ~(pc = "raised" /\ Has(state, "solution"))

(***************************************************************************)
(* C4.  With error unset, the routing accepts the lower-cased verdict if   *)
(* and only if it contains "correct" and contains neither "incorrect" nor  *)
(* "error".  Below the iteration limit the routing returns END exactly for *)
(* an accepted verdict.                                                    *)
(***************************************************************************)
ClaimedAccept(summary) ==
    /\ Contains(w_correct, summary)
    /\ ~Contains(w_incorrect, summary)
    /\ ~Contains(w_error, summary)

C4_AcceptIffAffirmativeWithoutNegation ==
    (pc = "routed_after_verification" /\ ~HasError(state) /\ iterations < 3)
        => (decision = "END"
              <=> ClaimedAccept(Lower(Get(state, "verification_summary", <<>>))))

(***************************************************************************)
(* C5.  With error unset and a verdict the routing rejects, the routing    *)
(* returns human_review exactly when iterations < 3 and END exactly when   *)
(* iterations >= 3; with a verdict it accepts it returns END whatever the  *)
(* iteration count.                                                        *)
(***************************************************************************)
C5_RejectRoutesByBudget ==
    (pc = "routed_after_verification" /\ ~HasError(state))
        => IF is_correct(Lower(Get(state, "verification_summary", <<>>)))
           THEN decision = "END"
           ELSE /\ decision = "human_review" <=> iterations < 3
                /\ decision = "END" <=> iterations >= 3

C5_Witness ==
    /\ pc = "routed_after_verification"
    /\ ~HasError(state)
    /\ Get(state, "verification_summary", <<>>) = V_CriticalError
    /\ iterations = 3
    /\ decision = "END"

(***************************************************************************)
(* C6.  The iteration count is 0 before the first node, equals the number  *)
(* of Verify executions that returned in every state of the run (so only   *)
(* Verify changes it, by one each time, and it never decreases), and never *)
(* exceeds 3.                                                              *)
(***************************************************************************)
C6_IterationsCountVerifies ==
    /\ iterations = Cardinality(CompletedVerifies)
    /\ iterations <= 3
    /\ (trace = <<>> => iterations = 0)

C6_Witness ==
    /\ pc = "END"
    /\ iterations = 3
    /\ Cardinality(CompletedVerifies) = 3

(***************************************************************************)
(* C7.  In a run where no oracle call fails, every verdict is one the      *)
(* routing rejects and the reviewer always approves, the nodes execute in  *)
(* the order generator, self_improvement, verifier, human_review,          *)
(* corrector, verifier, human_review, corrector, verifier and the run then *)
(* ends with iterations = 3, error unset and a verdict still rejected.     *)
(***************************************************************************)
BudgetRun ==
    << "generator", "self_improvement", "verifier", "human_review",
       "corrector", "verifier", "human_review", "corrector", "verifier" >>

AlwaysRejectedAndApproved ==
    /\ \A i \in 1..Len(trace) :
           trace[i].out \in {"ok", "structured", "approved"}
    /\ \A i \in Executions("verifier") : RejectedAt(i)

C7_BudgetExhaustion ==
    AlwaysRejectedAndApproved
        => /\ Len(trace) <= Len(BudgetRun)
           /\ \A i \in 1..Len(trace) : trace[i].node = BudgetRun[i]
           /\ Len(trace) < Len(BudgetRun) => pc = BudgetRun[Len(trace) + 1]
           /\ Len(trace) = Len(BudgetRun)
                 => /\ pc = "END"
                    /\ iterations = 3
                    /\ Cardinality(Executions("verifier")) = 3
                    /\ Cardinality(Executions("human_review")) = 2
                    /\ Cardinality(Executions("corrector")) = 2
                    /\ ~HasError(state)
                    /\ ~is_correct(Lower(state["verification_summary"]))

C7_Witness ==
    /\ AlwaysRejectedAndApproved
    /\ Len(trace) = Len(BudgetRun)
    /\ pc = "END"

(***************************************************************************)
(* C8.  When the reviewer rejects, human_review is the last node of the    *)
(* run: the run has ended, error holds the reviewer-rejection cause, and   *)
(* that cause differs from every cause an oracle failure writes.           *)
(***************************************************************************)
ReviewerRejectedAt(i) ==
    trace[i].node = "human_review" /\ trace[i].out = "rejected"

C8_ReviewerRejectionEndsRun ==
    \A i \in 1..Len(trace) :
        ReviewerRejectedAt(i)
            => /\ i = Len(trace)
               /\ pc = "END"
               /\ HasError(state)
               /\ state["error"] = HumanRejected
               /\ state["error"] \notin OracleFailureCauses

C8_Witness ==
    /\ trace # <<>>
    /\ ReviewerRejectedAt(Len(trace))
    /\ pc = "END"

(***************************************************************************)
(* C9.  When the generator produced a solution and the self_improvement    *)
(* oracle call fails, self_improvement leaves every field of the state as  *)
(* it was and the verifier is the next node.                               *)
(***************************************************************************)
C9_RefineFailureKeepsState ==
    [][(/\ pc = "self_improvement"
        /\ Has(state, "solution")
        /\ Len(trace') = Len(trace) + 1
        /\ trace'[Len(trace')].out = "failed")
          => /\ state' = state
             /\ ~HasError(state')
             /\ pc' = "verifier"]_vars

C9_Witness ==
    /\ Len(trace) >= 3
    /\ trace[1].out = "ok"
    /\ trace[2].node = "self_improvement" /\ trace[2].out = "failed"
    /\ trace[3].node = "verifier" /\ trace[3].out # "raised"
    /\ \E r \in SolutionResponses :
           state["solution"] = generator_node(state, [ok |-> TRUE, value |-> r])["solution"]

(***************************************************************************)
(* C10.  For k in 1..3: when Verify executions 1..k-1 returned rejected    *)
(* verdicts that the reviewer approved and Verify k returns "The solution  *)
(* is correct.", Verify k is the last node of the run, which has ended     *)
(* with iterations = k and error unset.                                    *)
(* The code runs the verifier after a failed corrector, with error set.    *)
(***************************************************************************)
AcceptedAfterApprovedRejections(i) ==
    /\ i \in CompletedVerifies
    /\ trace[i].summary = V_Correct
    /\ \A j \in Executions("verifier") : j < i => j \in CompletedVerifies /\ RejectedAt(j)
    /\ \A j \in Executions("human_review") : j < i => trace[j].out = "approved"

C10_AcceptEndsRun ==
    \A i \in 1..Len(trace) :
        AcceptedAfterApprovedRejections(i)
            => /\ i = Len(trace)
               /\ pc = "END"
               /\ iterations = Cardinality({ j \in Executions("verifier") : j <= i })
               /\ iterations \in 1..3
               /\ ~HasError(state)


(***************************************************************************)
(* C11.  The nodes of a run execute in the order generator,                *)
(* self_improvement, verifier, then human_review, corrector, verifier      *)
(* repeated: generator and self_improvement execute at most once, a        *)
(* corrector comes right after an approving human_review, a human_review   *)
(* right after a verifier, and a corrector that returned a solution is     *)
(* followed by the verifier.                                               *)
(***************************************************************************)
\* the node at position i of generator, self_improvement, verifier,
\* (human_review, corrector, verifier)*
PipelineNode(i) ==
    CASE i = 1 -> "generator"
      [] i = 2 -> "self_improvement"
      [] i >= 3 /\ i % 3 = 0 -> "verifier"
      [] i >= 3 /\ i % 3 = 1 -> "human_review"
      [] i >= 3 /\ i % 3 = 2 -> "corrector"

C11_PipelineOrder ==
    /\ \A i \in 1..Len(trace) : trace[i].node = PipelineNode(i)
    /\ Cardinality(Executions("generator")) <= 1
    /\ Cardinality(Executions("self_improvement")) <= 1
    /\ \A i \in Executions("corrector") :
           /\ i > 1
           /\ trace[i - 1].node = "human_review"
           /\ trace[i - 1].out = "approved"
    /\ \A i \in Executions("human_review") :
           /\ i > 1
           /\ trace[i - 1].node = "verifier"
           /\ trace[i - 1].out # "raised"
    /\ \A i \in Executions("corrector") :
           trace[i].out = "ok"
               => IF i < Len(trace) THEN trace[i + 1].node = "verifier"
                  ELSE pc = "verifier"

C11_Witness ==
    /\ Len(trace) = 9
    /\ Cardinality(Executions("corrector")) = 2
    /\ trace[8].out = "ok"
    /\ trace[9].node = "verifier"

(***************************************************************************)
(* C12.  A run ends only through a routing decision, a fatal node failure  *)
(* written to error, or the recursion limit: it never ends with an         *)
(* exception leaving a node.                                               *)
(* The code ends with the exception of the verifier's fallback call.       *)
(***************************************************************************)
C12_EndsWithoutUnhandledException ==
    Terminated => pc \in {"END", "recursion_error"}


(***************************************************************************)
(* C13.  The final state handed to the report when the run has ended is    *)
(* the accumulated state: it holds the solution, the verdict and the       *)
(* iteration count of the shared state.                                    *)
(* The code hands over the update of the last node only.                   *)
(***************************************************************************)
C13_ReportGetsAccumulatedState ==
    pc = "END"
        => \A k \in {"solution", "verification_summary", "iterations"} :
               Has(state, k) => Has(final_state, k) /\ final_state[k] = state[k]

(***************************************************************************)
(* C14.  When the run has ended, the report shows it as terminated with an *)
(* error exactly when a generator or corrector oracle call failed or the   *)
(* reviewer rejected during the run.                                       *)
(* The code reports a run whose corrector failed as completed.             *)
(***************************************************************************)
FailureOccurred ==
    \E i \in 1..Len(trace) :
        /\ trace[i].node \in {"generator", "corrector", "human_review"}
        /\ FailedAt(i)

C14_ReportShowsFailure ==
    pc = "END"
        => (FailureOccurred
              <=> report_workflow_status(final_state) = "TERMINATED WITH ERROR")


(***************************************************************************)
(* C15.  With error set, the routing after the verifier returns END for    *)
(* every verdict and iteration count, and the routing after human_review   *)
(* returns END; with error unset the routing after human_review returns    *)
(* corrector.                                                              *)
(***************************************************************************)
C15_ErrorShortCircuitsRouting ==
    /\ (pc = "routed_after_verification" /\ HasError(state)) => decision = "END"
    /\ (pc = "routed_after_human_review" /\ HasError(state)) => decision = "END"
    /\ (pc = "routed_after_human_review" /\ ~HasError(state))
           => decision = "corrector"

C15_Witness ==
    /\ pc = "routed_after_verification"
    /\ HasError(state)
    /\ Get(state, "verification_summary", <<>>) = V_CriticalError
    /\ iterations = 1
    /\ decision = "END"

(***************************************************************************)
(* C16.  The routing after the verifier depends on error,                  *)
(* verification_summary and iterations only: every state dictionary that   *)
(* agrees with the routed one on these three keys, whatever its            *)
(* problem_statement, solution and bug_report, gets the same decision, and *)
(* the routed dictionary is still one of them.                             *)
(***************************************************************************)
RoutingKeys == {"error", "verification_summary", "iterations"}

\* the dictionaries that agree with st on the routing keys
SameRoutingKeys(st) ==
    LET kept == [k \in DOMAIN st \cap RoutingKeys |-> st[k]]
    IN { Merge(Merge(Merge(p, a), b), kept) :
             p \in RouterProblems, a \in RouterSolutions, b \in RouterBugReports }

C16_RoutingReadsThreeKeys ==
    pc = "routed_after_verification"
        => /\ state \in SameRoutingKeys(state)
           /\ \A other \in SameRoutingKeys(state) :
                  decide_after_verification(other) = decision

C16_Witness ==
    /\ pc = "routed_after_verification"
    /\ decision = "human_review"
    /\ \E other \in SameRoutingKeys(state) :
           /\ Has(state, "solution") /\ ~Has(other, "solution")
           /\ other["problem_statement"] # state["problem_statement"]
           /\ decide_after_verification(other) = "human_review"


(***************************************************************************)
(* C17.  Whenever self_improvement, verifier, human_review or corrector is *)
(* the node to execute, the state holds a non-empty solution.              *)
(* The code runs self_improvement and verifier after a failed generator.   *)
(***************************************************************************)
C17_SolutionPresentAfterGenerate ==
    pc \in {"self_improvement", "verifier", "human_review", "corrector"}
        => Has(state, "solution") /\ state["solution"] # <<>>

(***************************************************************************)
(* C18.  bug_report and verification_summary are both unset or both set;   *)
(* only a verifier that returns writes either of them, and its update      *)
(* holds both together with iterations raised by one.                      *)
(***************************************************************************)
VerifierReturns ==
    /\ pc = "verifier"
    /\ Len(trace') = Len(trace) + 1
    /\ trace'[Len(trace')].out # "raised"

Written(k) ==
    Has(state, k) # Has(state', k) \/ (Has(state, k) /\ state'[k] # state[k])

C18_CritiqueAndVerdictTogether ==
    [][/\ Has(state, "bug_report") <=> Has(state, "verification_summary")
       /\ Has(state', "bug_report") <=> Has(state', "verification_summary")
       /\ (Written("bug_report") \/ Written("verification_summary"))
              => VerifierReturns
       /\ VerifierReturns
              => /\ DOMAIN final_state' =
                        {"verification_summary", "bug_report", "iterations"}
                 /\ state'["bug_report"] = final_state'["bug_report"]
                 /\ state'["verification_summary"] =
                        final_state'["verification_summary"]
                 /\ final_state'["iterations"] = Get(state, "iterations", 0) + 1
                 /\ state'["iterations"] = final_state'["iterations"]]_vars

C18_Witness ==
    /\ pc = "human_review"
    /\ Has(state, "bug_report") /\ Has(state, "verification_summary")
    /\ state["bug_report"] = NoIssuesFound
    /\ iterations = 2

(***************************************************************************)
(* C19.  problem_statement is the run input in the initial state and no    *)
(* step changes it.                                                        *)
(***************************************************************************)
C19_ProblemNeverChanges ==
    [][/\ state \in { initial_state(u) : u \in UserProblems }
          \/ trace # <<>>
       /\ Has(state', "problem_statement")
       /\ state'["problem_statement"] = state["problem_statement"]]_vars

C19_Witness ==
    /\ pc = "END"
    /\ iterations = 3
    /\ state["problem_statement"] = <<"P", "1">>

(***************************************************************************)
(* C20.  human_review changes at most error: on approval its update is     *)
(* empty and the state stays as it was, on rejection every key but error   *)
(* keeps its value and error becomes the reviewer-rejection cause; console *)
(* lines other than y and n are skipped, and with no y or n typed the node *)
(* does not return.                                                        *)
(***************************************************************************)
IsDecision(line) == Lower(line) = <<"y">> \/ Lower(line) = <<"n">>

\* the input loop on every sequence of console lines; it reads no state, so
\* the formula below evaluates it in the first step of a run only
InputLoopSkipsOtherLines ==
    \A inputs \in ConsoleInputs :
        LET a == AcceptedInput(inputs)
        IN IF \A i \in 1..Len(inputs) : ~IsDecision(inputs[i])
           THEN a = 0
           ELSE /\ a \in 1..Len(inputs)
                /\ IsDecision(inputs[a])
                /\ \A i \in 1..(a - 1) : ~IsDecision(inputs[i])

C20_HumanReviewFrame ==
    [][/\ trace = <<>> => InputLoopSkipsOtherLines
       /\ (pc = "human_review" /\ pc' # "human_review")
              => /\ Len(trace') = Len(trace) + 1
                 /\ trace'[Len(trace')].node = "human_review"
                 /\ IF trace'[Len(trace')].out = "approved"
                    THEN /\ final_state' = EmptyDict
                         /\ state' = state
                         /\ pc' = "corrector"
                    ELSE /\ trace'[Len(trace')].out = "rejected"
                         /\ DOMAIN final_state' = {"error"}
                         /\ DOMAIN state' = DOMAIN state \cup {"error"}
                         /\ \A k \in DOMAIN state \ {"error"} : state'[k] = state[k]
                         /\ state'["error"] = HumanRejected
       /\ (pc = "human_review" /\ pc' = "human_review") => state' = state]_vars

C20_Witness ==
    /\ pc = "END"
    /\ \E i \in Executions("human_review") : trace[i].out = "approved"
    /\ ReviewerRejectedAt(Len(trace))
    /\ DOMAIN state = {"problem_statement", "solution", "bug_report",
                       "verification_summary", "iterations", "error"}

(***************************************************************************)
(* C21.  A verifier whose structured call returned writes "No issues       *)
(* found." as bug_report if and only if the findings of the oracle's       *)
(* response are empty or missing; otherwise bug_report is the findings,    *)
(* one "- " line each, in the order of the response; in both cases         *)
(* verification_summary is the response's final_verdict as returned.       *)
(***************************************************************************)
\* critique is the lines "- f1", "- f2", ... of findings, in this order
JoinedInOrder(critique, findings) ==
    /\ Len(critique) = 3 * Len(findings) - 1
    /\ \A i \in 1..Len(findings) :
           /\ critique[3 * i - 2] = "- "
           /\ critique[3 * i - 1] = findings[i]
           /\ i < Len(findings) => critique[3 * i] = "\n"

C21_CritiqueFromFindings ==
    (pc = "verified" /\ Last.out = "structured")
        => LET response == Last.call.value
               none == ~Has(response, "findings") \/ response["findings"] = <<>>
           IN /\ state["bug_report"] = NoIssuesFound <=> none
              /\ ~none => JoinedInOrder(state["bug_report"], response["findings"])
              /\ state["verification_summary"] = response["final_verdict"]
              /\ final_state["bug_report"] = state["bug_report"]
              /\ final_state["verification_summary"] = state["verification_summary"]

C21_Witness ==
    /\ pc = "verified"
    /\ Last.out = "structured"
    /\ Has(Last.read, "bug_report")
    /\ Has(Last.call.value, "findings")
    /\ Len(Last.call.value["findings"]) = 2
    /\ state["bug_report"] =
           << "- ", <<"finding", 1>>, "\n", "- ", <<"finding", 2>> >>
    /\ state["verification_summary"] = V_ShoutedCorrect

(***************************************************************************)
(* C22.  A verifier whose structured call failed and whose fallback call   *)
(* returned writes verification_summary and bug_report and raises          *)
(* iterations by one; for a raw text that contains "the solution is        *)
(* correct" in any letter case the routing accepts the verdict and         *)
(* bug_report is "No issues found.", for any other raw text the routing    *)
(* rejects the verdict and bug_report is a non-empty list of findings.     *)
(***************************************************************************)
C22_FallbackVerdictConsistent ==
    (pc = "verified" /\ Last.out = "fallback")
        => /\ {"verification_summary", "bug_report", "iterations"}
                  \subseteq DOMAIN state
           /\ iterations = Get(Last.read, "iterations", 0) + 1
           /\ IF Contains(s_the_solution_is_correct, Lower(Last.raw.value))
              THEN /\ is_correct(Lower(state["verification_summary"]))
                   /\ state["bug_report"] = NoIssuesFound
                   /\ decision = "END"
              ELSE /\ ~is_correct(Lower(state["verification_summary"]))
                   /\ state["bug_report"] # NoIssuesFound
                   /\ Len(state["bug_report"]) > 0
                   /\ (~HasError(state) /\ iterations < MaxIterations)
                          => decision = "human_review"

C22_Witness ==
    /\ pc = "verified"
    /\ Last.out = "fallback"
    /\ ~HasError(state)
    /\ Last.raw.value = V_ShoutedCorrect
    /\ state["verification_summary"] = V_Correct
    /\ iterations = 2
    /\ decision = "END"

(***************************************************************************)
(* C23.  A run executes at most 9 nodes: the generator and                 *)
(* self_improvement once each, the verifier at most 3 times, human_review  *)
(* and the corrector at most twice each; the recursion limit of 10 is      *)
(* never reached and no run ends with the recursion error.                 *)
(***************************************************************************)
C23_AtMostNineSteps ==
    /\ Len(trace) <= 9
    /\ Len(trace) < RecursionLimit
    /\ pc # "recursion_error"
    /\ Cardinality(Executions("generator")) <= 1
    /\ Cardinality(Executions("self_improvement")) <= 1
    /\ Cardinality(Executions("verifier")) <= 3
    /\ Cardinality(Executions("human_review")) <= 2
    /\ Cardinality(Executions("corrector")) <= 2

C23_Witness ==
    /\ Terminated
    /\ Len(trace) = 9
    /\ Cardinality(Executions("verifier")) = 3
    /\ Cardinality(Executions("human_review")) = 2
    /\ Cardinality(Executions("corrector")) = 2

(***************************************************************************)
(* C24.  Whenever human_review or the corrector is the node to execute,    *)
(* error is unset, the current verdict is one the routing rejects, and     *)
(* iterations is 1 or 2.                                                   *)
(***************************************************************************)
C24_LoopEntryState ==
    pc \in {"human_review", "corrector"}
        => /\ ~HasError(state)
           /\ Has(state, "verification_summary")
           /\ ~is_correct(Lower(state["verification_summary"]))
           /\ iterations \in {1, 2}

C24_Witness ==
    /\ pc = "corrector"
    /\ ~HasError(state)
    /\ state["verification_summary"] = V_Incorrect
    /\ iterations = 2

(***************************************************************************)
(* C25.  Whenever a run has ended with error unset, the final verdict is   *)
(* one the routing accepts or iterations is 3: no run ends without error   *)
(* on a rejected verdict while iterations < 3.                             *)
(* The code ends a run with the exception of the verifier's fallback call, *)
(* error unset, at any iteration count.                                    *)
(***************************************************************************)
C25_EndsAcceptedOrExhausted ==
    (Terminated /\ ~HasError(state))
        => \/ is_correct(Lower(Get(state, "verification_summary", <<>>)))
           \/ iterations = 3

(***************************************************************************)
(* C26.  The corrector reads the bug_report and verification_summary that  *)
(* the most recent verifier wrote, for the solution that verifier read:    *)
(* human_review is entered only by a returning verifier, which leaves the  *)
(* solution as it read it and whose update holds the bug_report and the    *)
(* verdict now in the state; the corrector is entered only by an approving *)
(* human_review, which changes nothing.                                    *)
(***************************************************************************)
C26_CorrectorReadsFreshReport ==
    [][/\ (pc' = "human_review" /\ pc # "human_review")
              => /\ VerifierReturns
                 /\ Has(state, "solution")
                 /\ state'["solution"] = state["solution"]
                 /\ state'["bug_report"] = final_state'["bug_report"]
                 /\ state'["verification_summary"] =
                        final_state'["verification_summary"]
       /\ (pc' = "corrector" /\ pc # "corrector")
              => /\ pc = "human_review"
                 /\ trace'[Len(trace')].node = "human_review"
                 /\ Len(trace) >= 1 /\ Last.node = "verifier" /\ Last.out # "raised"
                 /\ state' = state
       /\ pc = "corrector"
              => /\ Len(trace') = Len(trace) + 1
                 /\ trace'[Len(trace')].node = "corrector"
                 /\ trace[Len(trace)].node = "human_review"
                 /\ trace[Len(trace) - 1].node = "verifier"
                 /\ trace[Len(trace) - 1].summary = state["verification_summary"]]_vars

C26_Witness ==
    /\ Len(trace) = 8
    /\ trace[6].node = "verifier" /\ trace[6].out = "fallback"
    /\ trace[7].node = "human_review"
    /\ trace[8].node = "corrector" /\ trace[8].out = "ok"
    /\ state["bug_report"] = JoinFindings(<<FallbackFinding>>)

(***************************************************************************)
(* C27.  Whenever human_review or the corrector is the node to execute,    *)
(* bug_report lists at least one finding: it is never "No issues found.".  *)
(* The code routes a rejected verdict that came with no findings to        *)
(* human_review.                                                           *)
(***************************************************************************)
C27_ReportListsAFinding ==
    pc \in {"human_review", "corrector"}
        => /\ Has(state, "bug_report")
           /\ state["bug_report"] # NoIssuesFound

(***************************************************************************)
(* C28.  The "Solution Accepted" line of the final report agrees with the  *)
(* routing: for every verdict, with error unset and below the iteration    *)
(* limit, the report shows YES if and only if the routing after the        *)
(* verifier accepted that verdict and returned END.                        *)
(* The code shows YES for "The proof is correct but has one error.", which *)
(* the routing rejects.                                                    *)
(***************************************************************************)
C28_ReportAgreesWithRouting ==
    (pc = "routed_after_verification" /\ ~HasError(state)
         /\ iterations < MaxIterations)
        => /\ decision = "END" <=> is_correct(Lower(Get(state, "verification_summary", <<>>)))
           /\ report_solution_accepted(state) <=> decision = "END"

====
